---- MODULE Spec2Model ----
(***************************************************************************)
(* A model of trio/_path.py: the trio.Path facade over pathlib.Path.       *)
(*                                                                         *)
(*  - the value protocol (unwrap_paths, rewrap_path, Path.__init__);       *)
(*  - the three synthesized dispatchers (_forward_factory, _forward_magic, *)
(*    thread_wrapper_factory), Path.__getattr__ and Path.open;             *)
(*  - the metaclass AsyncAutoWrapperType, which classifies the members of  *)
(*    the two source types when a facade type is defined.                  *)
(*                                                                         *)
(* Python values are records tagged by the field t:                        *)
(*    "str"/"bytes" (s: a sequence of characters), "raw" (a pathlib.Path:  *)
(*    abs, parts), "facade" (a trio.Path: wrapped, the pathlib.Path it     *)
(*    owns), "bool", "None", "NotImplemented", "file" (an open file        *)
(*    object), "AsyncFile" (what trio.wrap_file returns) and "raise" (a    *)
(*    raised exception e: a call's outcome is the value it returns or the  *)
(*    exception it raises).                                                *)
(*                                                                         *)
(* pathlib is an external library: its operations are modelled on POSIX    *)
(* paths over a two-character alphabet, with the semantics of the Python   *)
(* the file targets (3.5: a pathlib operation given an object that is      *)
(* neither a str nor a pathlib path raises TypeError).                     *)
(***************************************************************************)
EXTENDS Naturals, Sequences, FiniteSets, TLC

VARIABLES
    pc,           \* task -> "ready" | "suspended" (inside an await)
    call,         \* task -> the dispatcher call it issued last (or NoCall)
    ret,          \* task -> what that call returned or raised (or Pending)
    invoked,      \* task -> the underlying invocations that call has made
    job,          \* task -> the deferred invocation handed to the worker facility
    fsFiles,      \* the file system: absolute parts of the existing files
    fsDirs,       \* the file system: absolute parts of the existing directories
    forwardsDict, \* cls._forwards.__dict__ : name -> kind of member
    wrapsDict,    \* cls._wraps.__dict__    : name -> kind of member
    attrs,        \* the names the facade's class body defines
    forwardList,  \* cls._forward : the property names recorded
    clsDict,      \* the facade type's attributes : name -> what is bound
    phase         \* where AsyncAutoWrapperType.__init__ is

vars == <<pc, call, ret, invoked, job, fsFiles, fsDirs,
          forwardsDict, wrapsDict, attrs, forwardList, clsDict, phase>>

runVars == <<pc, call, ret, invoked, job, fsFiles, fsDirs>>
clsVars == <<forwardsDict, wrapsDict, attrs, forwardList, clsDict, phase>>

-----------------------------------------------------------------------------
(* Bounds of the model. *)

\* the longest string a caller passes as a path segment
MaxStr == 2
\* the most positional arguments a caller passes to a synchronous call
MaxArgs == 1

-----------------------------------------------------------------------------
(* Python values. *)

Chars == {"a", "/"}

Str(s) == [t |-> "str", s |-> s]
Bytes(s) == [t |-> "bytes", s |-> s]
Bool(b) == [t |-> "bool", b |-> b]
None == [t |-> "None"]
NotImplemented == [t |-> "NotImplemented"]
Raise(e) == [t |-> "raise", e |-> e]
Raw(abs, parts) == [t |-> "raw", abs |-> abs, parts |-> parts]
File(parts, mode) == [t |-> "file", parts |-> parts, mode |-> mode]

IsErr(v) == v.t = "raise"

-----------------------------------------------------------------------------
(* pathlib (external): parsing, formatting, joining, comparing. *)

\* the segments of the string s from position i on, cur being the segment read so far
RECURSIVE SplitFrom(_, _, _)
SplitFrom(s, i, cur) ==
    LET seg == IF cur = <<>> \/ cur = <<".">> THEN <<>> ELSE <<cur>>
    IN  IF i > Len(s) THEN seg
        ELSE IF s[i] = "/" THEN seg \o SplitFrom(s, i + 1, <<>>)
        ELSE SplitFrom(s, i + 1, Append(cur, s[i]))

\* pathlib.Path(s) for one str s
ParsePath(s) == Raw(Len(s) > 0 /\ s[1] = "/", SplitFrom(s, 1, <<>>))

RECURSIVE JoinSegs(_)
JoinSegs(parts) ==
    IF parts = <<>> THEN <<>>
    ELSE IF Len(parts) = 1 THEN parts[1]
    ELSE parts[1] \o <<"/">> \o JoinSegs(Tail(parts))

\* str(p) for a pathlib path p
FormatPath(p) ==
    IF p.abs THEN <<"/">> \o JoinSegs(p.parts)
    ELSE IF p.parts = <<>> THEN <<".">>
    ELSE JoinSegs(p.parts)

\* p / q for two pathlib paths: an absolute q replaces p
JoinPath(p, q) == IF q.abs THEN q ELSE Raw(p.abs, p.parts \o q.parts)

\* a pathlib operation accepts a str or a pathlib path as a path argument
IsPathArg(v) == v.t \in {"str", "raw"}
AsPath(v) == IF v.t = "str" THEN ParsePath(v.s) ELSE v

RECURSIVE JoinAll(_, _)
JoinAll(p, args) ==
    IF args = <<>> THEN p ELSE JoinAll(JoinPath(p, AsPath(Head(args))), Tail(args))

\* pathlib.Path(*args)
PathlibPath(args) ==
    IF \E i \in DOMAIN args : ~IsPathArg(args[i]) THEN Raise("TypeError")
    ELSE JoinAll(Raw(FALSE, <<>>), args)

Ord(c) == CASE c = "." -> 46 [] c = "/" -> 47 [] c = "a" -> 97 [] OTHER -> 0

RECURSIVE StrLt(_, _)
StrLt(a, b) ==
    IF b = <<>> THEN FALSE
    ELSE IF a = <<>> THEN TRUE
    ELSE IF Head(a) = Head(b) THEN StrLt(Tail(a), Tail(b))
    ELSE Ord(Head(a)) < Ord(Head(b))

RECURSIVE PartsLt(_, _)
PartsLt(a, b) ==
    IF b = <<>> THEN FALSE
    ELSE IF a = <<>> THEN TRUE
    ELSE IF Head(a) = Head(b) THEN PartsLt(Tail(a), Tail(b))
    ELSE StrLt(Head(a), Head(b))

\* the parts pathlib compares: the anchor first
CParts(p) == (IF p.abs THEN << <<"/">> >> ELSE <<>>) \o p.parts

PathLt(p, q) == PartsLt(CParts(p), CParts(q))

-----------------------------------------------------------------------------
(* pathlib (external): the members the facade forwards to.  Keyword         *)
(* arguments are a sequence of <<name, value>> pairs.                       *)

HasKw(kwargs, k) == \E i \in DOMAIN kwargs : kwargs[i][1] = k
KwValue(kwargs, k) == kwargs[CHOOSE i \in DOMAIN kwargs : kwargs[i][1] = k][2]

\* Python truthiness
Truthy(v) ==
    CASE v.t = "bool" -> v.b
      [] v.t = "None" -> FALSE
      [] v.t \in {"str", "bytes"} -> v.s # <<>>
      [] OTHER -> TRUE

IsPrefix(a, b) == Len(a) <= Len(b) /\ SubSeq(b, 1, Len(a)) = a

\* the plain functions pathlib.PurePath declares (those modelled)
ForwardNames == {"joinpath", "is_absolute", "relative_to", "as_posix"}
\* the properties pathlib.PurePath declares (those modelled)
PropertyNames == {"parent", "name"}
\* the plain functions pathlib.Path declares (those modelled), open apart
WrapNames == {"exists", "unlink", "mkdir", "samefile", "absolute"}

\* getattr(p, name)(*args, **kwargs) for a plain function of pathlib.PurePath
PurePathCall(name, p, args, kwargs) ==
    IF kwargs # <<>> THEN Raise("TypeError")
    ELSE CASE name = "joinpath" ->
                  IF \E i \in DOMAIN args : ~IsPathArg(args[i])
                  THEN Raise("TypeError") ELSE JoinAll(p, args)
           [] name = "is_absolute" ->
                  IF args # <<>> THEN Raise("TypeError") ELSE Bool(p.abs)
           [] name = "as_posix" ->
                  IF args # <<>> THEN Raise("TypeError") ELSE Str(FormatPath(p))
           [] name = "relative_to" ->
                  IF args = <<>> THEN Raise("TypeError")
                  ELSE LET o == PathlibPath(args)
                       IN  IF IsErr(o) THEN o
                           ELSE IF o.abs = p.abs /\ IsPrefix(o.parts, p.parts)
                           THEN Raw(FALSE, SubSeq(p.parts, Len(o.parts) + 1, Len(p.parts)))
                           ELSE Raise("ValueError")
           [] OTHER -> Raise("AttributeError")

\* getattr(p, name) for a property of pathlib.PurePath
PurePathProperty(name, p) ==
    CASE name = "parent" ->
             IF p.parts = <<>> THEN p ELSE Raw(p.abs, SubSeq(p.parts, 1, Len(p.parts) - 1))
      [] name = "name" ->
             Str(IF p.parts = <<>> THEN <<>> ELSE p.parts[Len(p.parts)])
      [] OTHER -> Raise("AttributeError")

UnaryMagic == {"__str__", "__bytes__"}
CompareMagic == {"__eq__", "__lt__", "__le__", "__gt__", "__ge__"}

\* getattr(pathlib.PurePath, name)(p, *operands), operands holding no or one operand
PurePathMagic(name, p, operands) ==
    IF name \in UnaryMagic
    THEN IF operands # <<>> THEN Raise("TypeError")
         ELSE IF name = "__str__" THEN Str(FormatPath(p)) ELSE Bytes(FormatPath(p))
    ELSE IF operands = <<>> THEN Raise("TypeError")
    ELSE LET o == operands[1]
         IN  CASE name = "__truediv__" ->
                      IF IsPathArg(o) THEN JoinPath(p, AsPath(o)) ELSE Raise("TypeError")
               [] name = "__rtruediv__" ->
                      IF IsPathArg(o) THEN JoinPath(AsPath(o), p) ELSE Raise("TypeError")
               [] name \in CompareMagic ->
                      IF o.t # "raw" THEN NotImplemented
                      ELSE CASE name = "__eq__" -> Bool(p = o)
                             [] name = "__lt__" -> Bool(PathLt(p, o))
                             [] name = "__le__" -> Bool(PathLt(p, o) \/ p = o)
                             [] name = "__gt__" -> Bool(PathLt(o, p))
                             [] OTHER -> Bool(PathLt(o, p) \/ p = o)
               [] OTHER -> Raise("AttributeError")

\* What a blocking member does: its outcome and the file system it leaves.  Relative
\* paths are taken from the working directory, the root.
Effect(result, files, dirs) == [result |-> result, files |-> files, dirs |-> dirs]

\* getattr(p, name)(*args, **kwargs) for a plain function of pathlib.Path
PathCall(name, p, args, kwargs, files, dirs) ==
    LET same(r) == Effect(r, files, dirs)
        here == p.parts
        exists == here \in files \union dirs
    IN  CASE name = "exists" ->
                 IF args # <<>> \/ kwargs # <<>> THEN same(Raise("TypeError"))
                 ELSE same(Bool(exists))
          [] name = "absolute" ->
                 IF args # <<>> \/ kwargs # <<>> THEN same(Raise("TypeError"))
                 ELSE same(Raw(TRUE, here))
          [] name = "unlink" ->
                 IF args # <<>> \/ kwargs # <<>> THEN same(Raise("TypeError"))
                 ELSE IF here \in files THEN Effect(None, files \ {here}, dirs)
                 ELSE IF here \in dirs THEN same(Raise("IsADirectoryError"))
                 ELSE same(Raise("FileNotFoundError"))
          [] name = "mkdir" ->
                 \* a positional argument would be the mode, an int: no value here is one
                 IF args # <<>> THEN same(Raise("TypeError"))
                 ELSE IF exists
                 THEN IF here \in dirs /\ HasKw(kwargs, "exist_ok")
                                       /\ Truthy(KwValue(kwargs, "exist_ok"))
                      THEN same(None) ELSE same(Raise("FileExistsError"))
                 ELSE IF SubSeq(here, 1, Len(here) - 1) \notin dirs
                 THEN same(Raise("FileNotFoundError"))
                 ELSE Effect(None, files, dirs \union {here})
          [] name = "samefile" ->
                 IF Len(args) # 1 \/ kwargs # <<>> THEN same(Raise("TypeError"))
                 ELSE IF ~IsPathArg(args[1]) THEN same(Raise("TypeError"))
                 ELSE IF ~exists \/ AsPath(args[1]).parts \notin files \union dirs
                 THEN same(Raise("FileNotFoundError"))
                 ELSE same(Bool(AsPath(args[1]).parts = here))
          [] name = "open" ->
                 IF Len(args) > 1 \/ kwargs # <<>> THEN same(Raise("TypeError"))
                 ELSE IF args # <<>> /\ args[1].t # "str" THEN same(Raise("TypeError"))
                 ELSE LET mode == IF args = <<>> THEN <<"r">> ELSE args[1].s
                      IN  IF mode \notin {<<"r">>, <<"w">>} THEN same(Raise("ValueError"))
                          ELSE IF here \in dirs THEN same(Raise("IsADirectoryError"))
                          ELSE IF here \in files THEN same(File(here, mode))
                          ELSE IF mode = <<"r">>
                                  \/ SubSeq(here, 1, Len(here) - 1) \notin dirs
                          THEN same(Raise("FileNotFoundError"))
                          ELSE Effect(File(here, mode), files \union {here}, dirs)
          [] OTHER -> same(Raise("AttributeError"))

-----------------------------------------------------------------------------
(* The value protocol and the facade's constructor. *)

Facade(w) == [t |-> "facade", wrapped |-> w]

\* (a faulty variant: no argument is unwrapped)
unwrap_paths_none(args) == args

RECURSIVE unwrap_paths(_)
unwrap_paths(args) ==
    IF args = <<>> THEN <<>>
    ELSE LET arg == Head(args)
         IN  <<IF arg.t = "facade" THEN arg.wrapped ELSE arg>> \o unwrap_paths(Tail(args))

\* (a faulty variant: the constructor's arguments go to pathlib as they are)
Path_no_unwrap(args) ==
    LET w == PathlibPath(args)
    IN  IF IsErr(w) THEN w ELSE Facade(w)

\* Path(*args): Path.__init__; the outcome is the new facade, or what pathlib raised
Path(args) ==
    LET a == unwrap_paths(args)
        w == PathlibPath(a)
    IN  IF IsErr(w) THEN w ELSE Facade(w)

rewrap_path(value) == IF value.t = "raw" THEN Path(<<value>>) ELSE value

-----------------------------------------------------------------------------
(* The metaclass AsyncAutoWrapperType: the facade type's construction.      *)

\* the kinds of member a source type's __dict__ may hold
Kinds == {"property", "function", "classmethod", "other"}

\* Path._forward_magic
MagicList == <<"__str__", "__bytes__", "__truediv__", "__rtruediv__", "__eq__",
               "__lt__", "__le__", "__gt__", "__ge__">>
MagicNames == {MagicList[i] : i \in DOMAIN MagicList}

\* every member name of the model, in the order a __dict__ yields its items
NameOrder == <<"__slots__", "_init", "parent", "name", "joinpath", "is_absolute",
               "relative_to", "as_posix", "cwd", "home", "exists", "unlink", "mkdir",
               "samefile", "absolute", "open">> \o MagicList
AllNames == {NameOrder[i] : i \in DOMAIN NameOrder}
            \union {"_wraps", "_forwards", "_forward_magic", "__init__", "__getattr__",
                    "__dir__", "__repr__", "__fspath__", "nosuch"}

\* attr_name.startswith('_')
startswith_(n) == n \notin {"parent", "name", "joinpath", "is_absolute", "relative_to",
                            "as_posix", "cwd", "home", "exists", "unlink", "mkdir",
                            "samefile", "absolute", "open", "nosuch"}

\* d.items(), as the names
Items(d) == SelectSeq(NameOrder, LAMBDA n : n \in DOMAIN d)

\* pathlib.PurePath.__dict__ and pathlib.Path.__dict__ (the members modelled)
PurePathDict ==
    [n \in ForwardNames \union PropertyNames \union MagicNames \union {"__slots__"} |->
        IF n \in PropertyNames THEN "property"
        ELSE IF n = "__slots__" THEN "other" ELSE "function"]
PathDict ==
    [n \in WrapNames \union {"open", "cwd", "home", "__slots__", "_init"} |->
        IF n \in {"cwd", "home"} THEN "classmethod"
        ELSE IF n = "__slots__" THEN "other" ELSE "function"]
\* the names the body of class Path defines
PathAttrs == {"_wraps", "_forwards", "_forward_magic", "__init__", "__getattr__",
              "__dir__", "__repr__", "__fspath__", "open"}

\* The type under construction: what its names are bound to, cls._forward, and
\* whether a TypeError has been raised.
\* type.__init__ (super().__init__) binds the class body; then cls._forward = []
NewClass(body) ==
    [clsDict |-> [n \in AllNames |-> IF n \in body THEN "explicit" ELSE "unbound"],
     forwardList |-> <<>>,
     raised |-> FALSE]

\* generate_forwards(cls, attrs), items being what of cls._forwards.__dict__ is left
RECURSIVE generate_forwards(_, _, _, _)
generate_forwards(items, fdict, body, cls) ==
    IF items = <<>> THEN cls
    ELSE LET attr_name == Head(items)
             attr == fdict[attr_name]
         IN  IF startswith_(attr_name) \/ attr_name \in body
             THEN generate_forwards(Tail(items), fdict, body, cls)
             ELSE IF attr = "property"
             THEN generate_forwards(Tail(items), fdict, body,
                      [cls EXCEPT !.forwardList = Append(@, attr_name)])
             ELSE IF attr = "function"
             THEN generate_forwards(Tail(items), fdict, body,
                      [cls EXCEPT !.clsDict[attr_name] = "forward"])
             ELSE [cls EXCEPT !.raised = TRUE]

\* (a faulty variant: a member of an unrecognised kind is passed over)
RECURSIVE generate_wraps_skip(_, _, _, _)
generate_wraps_skip(items, wdict, body, cls) ==
    IF items = <<>> THEN cls
    ELSE LET attr_name == Head(items)
             attr == wdict[attr_name]
         IN  IF startswith_(attr_name) \/ attr_name \in body
             THEN generate_wraps_skip(Tail(items), wdict, body, cls)
             ELSE IF attr = "classmethod"
             THEN generate_wraps_skip(Tail(items), wdict, body,
                      [cls EXCEPT !.clsDict[attr_name] = "classmethod"])
             ELSE IF attr = "function"
             THEN generate_wraps_skip(Tail(items), wdict, body,
                      [cls EXCEPT !.clsDict[attr_name] = "thread"])
             ELSE generate_wraps_skip(Tail(items), wdict, body, cls)

\* generate_wraps(cls, attrs), items being what of cls._wraps.__dict__ is left
RECURSIVE generate_wraps(_, _, _, _)
generate_wraps(items, wdict, body, cls) ==
    IF items = <<>> THEN cls
    ELSE LET attr_name == Head(items)
             attr == wdict[attr_name]
         IN  IF startswith_(attr_name) \/ attr_name \in body
             THEN generate_wraps(Tail(items), wdict, body, cls)
             ELSE IF attr = "classmethod"
             THEN generate_wraps(Tail(items), wdict, body,
                      [cls EXCEPT !.clsDict[attr_name] = "classmethod"])
             ELSE IF attr = "function"
             THEN generate_wraps(Tail(items), wdict, body,
                      [cls EXCEPT !.clsDict[attr_name] = "thread"])
             ELSE [cls EXCEPT !.raised = TRUE]

\* generate_magic(cls, attrs), names being what of cls._forward_magic is left
RECURSIVE generate_magic(_, _, _)
generate_magic(names, body, cls) ==
    IF names = <<>> THEN cls
    ELSE generate_magic(Tail(names), body, [cls EXCEPT !.clsDict[Head(names)] = "magic"])

\* AsyncAutoWrapperType.__init__, whole
AsyncAutoWrapperType(fdict, wdict, body) ==
    LET c1 == generate_forwards(Items(fdict), fdict, body, NewClass(body))
        c2 == IF c1.raised THEN c1 ELSE generate_wraps(Items(wdict), wdict, body, c1)
    IN  IF c2.raised THEN c2 ELSE generate_magic(MagicList, body, c2)

TheClass == [clsDict |-> clsDict, forwardList |-> forwardList, raised |-> FALSE]

\* the state of a class statement at the call of generate_forwards
ClassStatement(fdict, wdict, body) ==
    /\ forwardsDict = fdict
    /\ wrapsDict = wdict
    /\ attrs = body
    /\ clsDict = NewClass(body).clsDict
    /\ forwardList = NewClass(body).forwardList
    /\ phase = "forwards"

\* the state once the class statement has run
ClassDefined(fdict, wdict, body) ==
    /\ forwardsDict = fdict
    /\ wrapsDict = wdict
    /\ attrs = body
    /\ clsDict = AsyncAutoWrapperType(fdict, wdict, body).clsDict
    /\ forwardList = AsyncAutoWrapperType(fdict, wdict, body).forwardList
    /\ phase = IF AsyncAutoWrapperType(fdict, wdict, body).raised THEN "TypeError" ELSE "done"

\* a generator of the metaclass has run: the type is as it left it, and a TypeError
\* raised ends the construction
Generated(cls, then) ==
    /\ clsDict' = cls.clsDict
    /\ forwardList' = cls.forwardList
    /\ phase' = IF cls.raised THEN "TypeError" ELSE then
    /\ UNCHANGED <<forwardsDict, wrapsDict, attrs>>
    /\ UNCHANGED runVars

GenerateForwards ==
    /\ phase = "forwards"
    /\ Generated(generate_forwards(Items(forwardsDict), forwardsDict, attrs, TheClass),
                 "wraps")

GenerateWraps ==
    /\ phase = "wraps"
    /\ Generated(generate_wraps(Items(wrapsDict), wrapsDict, attrs, TheClass), "magic")

GenerateMagic ==
    /\ phase = "magic"
    /\ Generated(generate_magic(MagicList, attrs, TheClass), "done")

-----------------------------------------------------------------------------
(* Tasks, and the calls they issue on the facade type once it is defined.   *)

Tasks == {"t1", "t2"}

NoCall == [kind |-> "none"]
Pending == [t |-> "pending"]
NoJob == [st |-> "none"]

Call(kind, name, self, args, kwargs) ==
    [kind |-> kind, name |-> name, self |-> self, args |-> args, kwargs |-> kwargs]

\* one invocation of a member of the underlying value, and the thread that ran it
Invocation(name, self, args, kwargs, result, thread) ==
    [name |-> name, self |-> self, args |-> args, kwargs |-> kwargs,
     result |-> result, thread |-> thread]

\* functools.partial(meth, *args, **kwargs) for the bound method meth of the raw value
partial(meth_name, raw, args, kwargs) ==
    [meth |-> meth_name, self |-> raw, args |-> args, kwargs |-> kwargs]

\* the scheduler's thread runs one thing at a time: no task takes a step while a
\* deferred invocation is running on it
SchedulerFree ==
    \A t \in Tasks : job[t].st \in {"queued", "running"} => job[t].thread = "worker"

Runnable(t) == phase = "done" /\ pc[t] = "ready" /\ SchedulerFree

\* a call that runs to completion in the caller's step
Returns(t, c, out, invs) ==
    /\ call' = [call EXCEPT ![t] = c]
    /\ ret' = [ret EXCEPT ![t] = out]
    /\ invoked' = [invoked EXCEPT ![t] = invs]
    /\ job' = [job EXCEPT ![t] = NoJob]
    /\ UNCHANGED <<pc, fsFiles, fsDirs>>
    /\ UNCHANGED clsVars

\* Path(*args)
__init__(t, args) ==
    /\ Runnable(t)
    /\ Returns(t, Call("init", "__init__", None, args, <<>>), Path(args), <<>>)

\* (a faulty variant: an exception of the member is caught and None returned)
_forward_factory_swallow(t, self, attr_name, args, kwargs) ==
    /\ Runnable(t)
    /\ clsDict[attr_name] = "forward"
    /\ LET a == unwrap_paths(args)
           value == PurePathCall(attr_name, self.wrapped, a, kwargs)
       IN  Returns(t, Call("forward", attr_name, self, args, kwargs),
                   IF IsErr(value) THEN None ELSE rewrap_path(value),
                   <<Invocation(attr_name, self.wrapped, a, kwargs, value, "scheduler")>>)

\* the wrapper _forward_factory(cls, attr_name, attr) returns
_forward_factory(t, self, attr_name, args, kwargs) ==
    /\ Runnable(t)
    /\ clsDict[attr_name] = "forward"
    /\ LET a == unwrap_paths(args)
           value == PurePathCall(attr_name, self.wrapped, a, kwargs)
       IN  Returns(t, Call("forward", attr_name, self, args, kwargs),
                   IF IsErr(value) THEN value ELSE rewrap_path(value),
                   <<Invocation(attr_name, self.wrapped, a, kwargs, value, "scheduler")>>)

\* (a faulty variant: the operand is not unwrapped)
_forward_magic_no_unwrap(t, self, attr_name, operands) ==
    /\ Runnable(t)
    /\ clsDict[attr_name] = "magic"
    /\ LET value == PurePathMagic(attr_name, self.wrapped, operands)
       IN  Returns(t, Call("magic", attr_name, self, operands, <<>>),
                   IF IsErr(value) \/ operands = <<>> THEN value ELSE rewrap_path(value),
                   <<Invocation(attr_name, self.wrapped, operands, <<>>, value,
                                "scheduler")>>)

\* the wrapper _forward_magic(cls, attr) returns; operands holds no operand (other is
\* the sentinel) or one
_forward_magic(t, self, attr_name, operands) ==
    /\ Runnable(t)
    /\ clsDict[attr_name] = "magic"
    /\ IF operands = <<>>
       THEN LET value == PurePathMagic(attr_name, self.wrapped, <<>>)
            IN  Returns(t, Call("magic", attr_name, self, operands, <<>>), value,
                        <<Invocation(attr_name, self.wrapped, <<>>, <<>>, value, "scheduler")>>)
       ELSE LET other == IF operands[1].t = "facade" THEN operands[1].wrapped
                         ELSE operands[1]
                value == PurePathMagic(attr_name, self.wrapped, <<other>>)
            IN  Returns(t, Call("magic", attr_name, self, operands, <<>>),
                        IF IsErr(value) THEN value ELSE rewrap_path(value),
                        <<Invocation(attr_name, self.wrapped, <<other>>, <<>>, value,
                                     "scheduler")>>)

\* Path.__getattr__, reached for a name the type does not bind
__getattr__(t, self, name) ==
    /\ Runnable(t)
    /\ clsDict[name] = "unbound"
    /\ IF \E i \in DOMAIN forwardList : forwardList[i] = name
       THEN LET value == PurePathProperty(name, self.wrapped)
            IN  Returns(t, Call("property", name, self, <<>>, <<>>), rewrap_path(value),
                        <<Invocation(name, self.wrapped, <<>>, <<>>, value, "scheduler")>>)
       ELSE Returns(t, Call("property", name, self, <<>>, <<>>), Raise("AttributeError"),
                    <<>>)

\* trio.run_sync_in_worker_thread(func): the deferred invocation is queued for a worker
\* thread, which reports its outcome; the caller is suspended meanwhile
run_sync_in_worker_thread(func) ==
    [st |-> "queued", func |-> func, thread |-> "worker", outcome |-> Pending]

\* the caller of an await is suspended until its job's outcome is delivered
Awaits(t, c, j) ==
    /\ call' = [call EXCEPT ![t] = c]
    /\ ret' = [ret EXCEPT ![t] = Pending]
    /\ invoked' = [invoked EXCEPT ![t] = <<>>]
    /\ job' = [job EXCEPT ![t] = j]
    /\ pc' = [pc EXCEPT ![t] = "suspended"]
    /\ UNCHANGED <<fsFiles, fsDirs>>
    /\ UNCHANGED clsVars

\* (a faulty variant: func() is called in the task, on the scheduler's thread)
thread_wrapper_inline(t, self, meth_name, args, kwargs) ==
    /\ Runnable(t)
    /\ clsDict[meth_name] = "thread"
    /\ LET a == unwrap_paths(args)
           func == partial(meth_name, self.wrapped, a, kwargs)
       IN  Awaits(t, Call("thread", meth_name, self, args, kwargs),
                  [run_sync_in_worker_thread(func) EXCEPT !.thread = "scheduler"])

\* (a faulty variant: the method is looked up on the raw value of another facade)
thread_wrapper_other_self(t, self, meth_name, args, kwargs) ==
    /\ Runnable(t)
    /\ clsDict[meth_name] = "thread"
    /\ LET a == unwrap_paths(args)
           func == partial(meth_name, Raw(FALSE, << <<"a">> >>), a, kwargs)
       IN  Awaits(t, Call("thread", meth_name, self, args, kwargs),
                  run_sync_in_worker_thread(func))

\* the wrapper thread_wrapper_factory(cls, meth_name) returns, up to its await
thread_wrapper_factory(t, self, meth_name, args, kwargs) ==
    /\ Runnable(t)
    /\ clsDict[meth_name] = "thread"
    /\ LET a == unwrap_paths(args)
           func == partial(meth_name, self.wrapped, a, kwargs)
       IN  Awaits(t, Call("thread", meth_name, self, args, kwargs),
                  run_sync_in_worker_thread(func))

\* Path.open, up to its await
open(t, self, args, kwargs) ==
    /\ Runnable(t)
    /\ clsDict["open"] = "explicit"
    /\ LET func == partial("open", self.wrapped, args, kwargs)
       IN  Awaits(t, Call("open", "open", self, args, kwargs),
                  run_sync_in_worker_thread(func))

\* a thread takes the deferred invocation up
WorkerStart(t) ==
    /\ job[t].st = "queued"
    /\ job' = [job EXCEPT ![t].st = "running"]
    /\ UNCHANGED <<pc, call, ret, invoked, fsFiles, fsDirs>>
    /\ UNCHANGED clsVars

\* the thread calls func(): the underlying member runs against the file system, and
\* its outcome (the value returned or the exception raised) is reported
WorkerFinish(t) ==
    /\ job[t].st = "running"
    /\ LET f == job[t].func
           e == PathCall(f.meth, f.self, f.args, f.kwargs, fsFiles, fsDirs)
       IN  /\ job' = [job EXCEPT ![t].st = "done", ![t].outcome = e.result]
           /\ invoked' = [invoked EXCEPT ![t] =
                  Append(@, Invocation(f.meth, f.self, f.args, f.kwargs, e.result,
                                       job[t].thread))]
           /\ fsFiles' = e.files
           /\ fsDirs' = e.dirs
    /\ UNCHANGED <<pc, call, ret>>
    /\ UNCHANGED clsVars

\* trio.wrap_file(file)
wrap_file(file) == [t |-> "AsyncFile", wrapped |-> file]

\* (a faulty variant: open rewraps the handle as the generic dispatcher does)
AfterAwait_rewrap(kind, value) == rewrap_path(value)

\* what the resumed wrapper does with the value the await gave it
AfterAwait(kind, value) ==
    IF kind = "open" THEN wrap_file(value) ELSE rewrap_path(value)

\* the task is resumed with the outcome of its job: an exception is raised out of the
\* await and the wrapper, a value is returned through the wrapper's last line
Resume(t) ==
    /\ phase = "done"
    /\ SchedulerFree
    /\ pc[t] = "suspended"
    /\ job[t].st = "done"
    /\ LET value == job[t].outcome
       IN  ret' = [ret EXCEPT ![t] =
                      IF IsErr(value) THEN value ELSE AfterAwait(call[t].kind, value)]
    /\ pc' = [pc EXCEPT ![t] = "ready"]
    /\ job' = [job EXCEPT ![t].st = "delivered"]
    /\ UNCHANGED <<call, invoked, fsFiles, fsDirs>>
    /\ UNCHANGED clsVars

-----------------------------------------------------------------------------
(* The inputs callers give, and the specifications. *)

StrsUpTo(n) == UNION {[1..k -> Chars] : k \in 0..n}
SeqsUpTo(S, n) == UNION {[1..k -> S] : k \in 0..n}

\* the values a caller of a synchronous member passes: strings, pathlib paths, facades
Segments == {Str(s) : s \in StrsUpTo(MaxStr)}
RawPaths == {ParsePath(s) : s \in StrsUpTo(MaxStr)}
Facades == {Facade(p) : p \in RawPaths}
Values == Segments \union RawPaths \union Facades \union {None}
ArgLists == SeqsUpTo(Values, MaxArgs)
KwLists == {<<>>, << <<"exist_ok", Facade(ParsePath(<<"a">>))>> >>}

\* the file system at the start: the files /a and /aa in the root directory
FileA == << <<"a">> >>
FileAA == << <<"a", "a">> >>
FacadeA == Facade(Raw(FALSE, FileA))

\* the facade each task of the concurrent scenario holds
SelfOf(t) == IF t = "t1" THEN FacadeA ELSE Facade(Raw(FALSE, FileAA))

\* the calls the tasks of the concurrent scenario issue on their facades: <<name,
\* positional arguments, keyword arguments>>
TaskForwardCalls == {<<"joinpath", <<FacadeA>>, <<>> >>, <<"relative_to", <<FacadeA>>, <<>> >>}
TaskMagicCalls == {<<"__eq__", <<FacadeA>> >>, <<"__truediv__", <<>> >>}
TaskThreadCalls ==
    {<<"exists", <<>>, <<>> >>, <<"unlink", <<>>, <<>> >>, <<"mkdir", <<>>, <<>> >>,
     <<"mkdir", <<>>, << <<"exist_ok", Bool(TRUE)>> >> >>,
     <<"samefile", <<FacadeA>>, <<>> >>, <<"absolute", <<>>, <<>> >>}
TaskOpenCalls == {<< <<>>, <<>> >>, << <<Str(<<"w">>)>>, <<>> >>, << <<FacadeA>>, <<>> >>}

InitRun ==
    /\ pc = [t \in Tasks |-> "ready"]
    /\ call = [t \in Tasks |-> NoCall]
    /\ ret = [t \in Tasks |-> Pending]
    /\ invoked = [t \in Tasks |-> <<>>]
    /\ job = [t \in Tasks |-> NoJob]
    /\ fsFiles = {FileA, FileAA}
    /\ fsDirs = {<<>>}

\* class Path(metaclass=AsyncAutoWrapperType) has been defined over pathlib
InitAsync == InitRun /\ ClassDefined(PurePathDict, PathDict, PathAttrs)

\* task t1 is about to issue the call c
About(c) == call = [t \in Tasks |-> IF t = "t1" THEN c ELSE NoCall]

\* ... and task t1 is about to issue one synchronous call: the constructor, a forwarded
\* function or property, an operator
InitSync ==
    /\ ClassDefined(PurePathDict, PathDict, PathAttrs)
    /\ pc = [t \in Tasks |-> "ready"]
    /\ \/ \E args \in ArgLists : About(Call("init", "__init__", None, args, <<>>))
       \/ \E n \in ForwardNames, self \in Facades, args \in ArgLists, kw \in KwLists :
              About(Call("forward", n, self, args, kw))
       \/ \E n \in MagicNames, self \in Facades, ops \in SeqsUpTo(Values, 1) :
              About(Call("magic", n, self, ops, <<>>))
       \/ \E n \in PropertyNames \union {"nosuch"}, self \in Facades :
              About(Call("property", n, self, <<>>, <<>>))
    /\ ret = [t \in Tasks |-> Pending]
    /\ invoked = [t \in Tasks |-> <<>>]
    /\ job = [t \in Tasks |-> NoJob]
    /\ fsFiles = {FileA, FileAA}
    /\ fsDirs = {<<>>}

\* a __dict__ holding the names g gives a kind
DictOf(g) == [n \in {m \in DOMAIN g : g[m] # "absent"} |-> g[n]]

\* a class statement for a facade type over any two sources and any class body
InitClassify ==
    /\ InitRun
    /\ \E fo, fn, wo, wn \in Kinds \union {"absent"}, fi, wi \in {"absent", "other"} :
       \E body \in SUBSET {"open", "__eq__"} :
           ClassStatement(
               DictOf([n \in {"open", "name", "_init", "__eq__"} |->
                          CASE n = "open" -> fo [] n = "name" -> fn
                            [] n = "_init" -> fi [] OTHER -> "function"]),
               DictOf([n \in {"open", "name", "_init"} |->
                          CASE n = "open" -> wo [] n = "name" -> wn [] OTHER -> wi]),
               body)

\* task t1 issues the call it is about to
SyncCall ==
    LET c == call["t1"]
    IN  /\ ret["t1"] = Pending
        /\ CASE c.kind = "init" -> __init__("t1", c.args)
             [] c.kind = "forward" -> _forward_factory("t1", c.self, c.name, c.args, c.kwargs)
             [] c.kind = "magic" -> _forward_magic("t1", c.self, c.name, c.args)
             [] OTHER -> __getattr__("t1", c.self, c.name)

ForwardCall(t) == \E c \in TaskForwardCalls : _forward_factory(t, SelfOf(t), c[1], c[2], c[3])
MagicCall(t) == \E c \in TaskMagicCalls : _forward_magic(t, SelfOf(t), c[1], c[2])
ThreadCall(t) ==
    \E c \in TaskThreadCalls : thread_wrapper_factory(t, SelfOf(t), c[1], c[2], c[3])
OpenCall(t) == \E c \in TaskOpenCalls : open(t, SelfOf(t), c[1], c[2])

NextClassify == GenerateForwards \/ GenerateWraps \/ GenerateMagic
NextSync == SyncCall
NextAsync ==
    \E t \in Tasks :
        \/ ForwardCall(t)
        \/ MagicCall(t)
        \/ ThreadCall(t)
        \/ OpenCall(t)
        \/ WorkerStart(t)
        \/ WorkerFinish(t)
        \/ Resume(t)

SpecClassify == InitClassify /\ [][NextClassify]_vars
SpecSync == InitSync /\ [][NextSync]_vars
SpecAsync == InitAsync /\ [][NextAsync]_vars
\* the worker facility runs every job it is given, and trio reschedules every task
\* whose job is done
SpecAsyncFair ==
    /\ SpecAsync
    /\ \A t \in Tasks :
           WF_vars(WorkerStart(t)) /\ WF_vars(WorkerFinish(t)) /\ WF_vars(Resume(t))

-----------------------------------------------------------------------------
(* The properties.  They are stated with the specification's own notions of  *)
(* unwrapping and rewrapping, not with the operators that model the code.    *)

\* the raw value an argument stands for: the one a facade owns, or the argument itself
RawValueOf(v) == IF v.t = "facade" THEN v.wrapped ELSE v
\* every facade among the arguments replaced by the raw value it owns
Unwrapped(args) == [i \in DOMAIN args |-> RawValueOf(args[i])]
\* a raw path returned becomes a facade owning it; anything else (an exception raised
\* too) is passed on as it is
Rewrapped(v) == IF v.t = "raw" THEN [t |-> "facade", wrapped |-> v] ELSE v

Completed(t) == call[t] # NoCall /\ ret[t] # Pending /\ pc[t] = "ready"

\* C6: a non-blocking dispatcher returns Rewrap(raw.op(Unwrap(positional arguments),
\* keyword arguments unchanged)): the underlying member is invoked on the owned raw
\* value with every facade among the positional arguments replaced by its raw value
\* and the keyword arguments as given, and the caller is never suspended.
C6_NonBlockingDispatch ==
    \A t \in Tasks :
        call[t].kind = "forward" =>
            /\ pc[t] = "ready"
            /\ job[t] = NoJob
            /\ ret[t] # Pending =>
                   /\ ret[t] = Rewrapped(PurePathCall(call[t].name, call[t].self.wrapped,
                                                      Unwrapped(call[t].args),
                                                      call[t].kwargs))
                   /\ Len(invoked[t]) = 1
                   /\ invoked[t][1].name = call[t].name
                   /\ invoked[t][1].self = call[t].self.wrapped
                   /\ invoked[t][1].args = Unwrapped(call[t].args)
                   /\ invoked[t][1].kwargs = call[t].kwargs
                   /\ invoked[t][1].thread = "scheduler"

\* a non-blocking member was called with a facade among its arguments and returned a
\* facade
C6_Witness ==
    \E t \in Tasks :
        /\ call[t].kind = "forward"
        /\ \E i \in DOMAIN call[t].args : call[t].args[i].t = "facade"
        /\ ret[t].t = "facade"

\* C5: an operator dispatcher gives the outcome of the underlying operator on (owned
\* raw value, raw value of the operand), a facade where that is a raw path and the
\* result unchanged otherwise; with no operand, the underlying unary result.  So
\* Facade(a) == raw(a), Facade(a) == Facade(a), and Facade(a) / b is the facade of a / b.
C5_OperatorDispatch ==
    \A t \in Tasks :
        (call[t].kind = "magic" /\ ret[t] # Pending) =>
            LET c == call[t]
            IN  IF c.args = <<>>
                THEN ret[t] = PurePathMagic(c.name, c.self.wrapped, <<>>)
                ELSE /\ ret[t] = Rewrapped(PurePathMagic(c.name, c.self.wrapped,
                                                         <<RawValueOf(c.args[1])>>))
                     /\ (c.name = "__eq__" /\ c.args[1] \in {c.self, c.self.wrapped})
                            => ret[t] = Bool(TRUE)
                     /\ (c.name = "__truediv__" /\ c.args[1].t \in {"facade", "raw", "str"})
                            => /\ ret[t].t = "facade"
                               /\ ret[t].wrapped =
                                      JoinPath(c.self.wrapped, AsPath(RawValueOf(c.args[1])))

\* a facade was joined to a facade, and a facade came back
C5_Witness ==
    \E t \in Tasks :
        /\ call[t].kind = "magic"
        /\ call[t].name = "__truediv__"
        /\ call[t].args # <<>>
        /\ call[t].args[1].t = "facade"
        /\ call[t].args[1].wrapped.parts # <<>>
        /\ ret[t].t = "facade"

\* C7: constructing a facade from a facade of p gives a facade equal to it, every
\* constructor argument that is a facade being replaced by its raw value before the
\* owned raw value is built.
C7_ConstructionIdempotent ==
    \A t \in Tasks :
        (call[t].kind = "init" /\ ret[t] # Pending) =>
            LET args == call[t].args
                w == PathlibPath(Unwrapped(args))
            IN  /\ ret[t] = IF IsErr(w) THEN w ELSE [t |-> "facade", wrapped |-> w]
                /\ (Len(args) = 1 /\ args[1].t = "facade") =>
                       /\ ret[t] = args[1]
                       /\ PurePathMagic("__eq__", ret[t].wrapped, <<args[1].wrapped>>)
                              = Bool(TRUE)

\* a facade was constructed from a facade of a path that is not the empty one
C7_Witness ==
    \E t \in Tasks :
        /\ call[t].kind = "init"
        /\ Len(call[t].args) = 1
        /\ call[t].args[1].t = "facade"
        /\ call[t].args[1].wrapped.parts # <<>>
        /\ ret[t].t = "facade"

-----------------------------------------------------------------------------
(* The concurrent scenario. *)

InFlight(t) == pc[t] = "suspended" /\ job[t].st \in {"queued", "running"}

\* a task issues some call on its facade
TaskStep(t) == ForwardCall(t) \/ MagicCall(t) \/ ThreadCall(t) \/ OpenCall(t)

\* C1: while a task is suspended in a blocking dispatcher whose deferred invocation is
\* still with the worker thread, every other ready task can take a step (the scheduler
\* is not held), and the awaiting task resumes with exactly what the underlying
\* operation returned on the raw value, a raw path rewrapped.
C1_OffloadDoesNotBlock ==
    \A t \in Tasks :
        call[t].kind = "thread" =>
            /\ InFlight(t) =>
                   /\ job[t].thread = "worker"
                   /\ \A u \in Tasks \ {t} : pc[u] = "ready" => ENABLED TaskStep(u)
            /\ Completed(t) =>
                   /\ Len(invoked[t]) = 1
                   /\ invoked[t][1].name = call[t].name
                   /\ invoked[t][1].self = call[t].self.wrapped
                   /\ invoked[t][1].args = Unwrapped(call[t].args)
                   /\ invoked[t][1].kwargs = call[t].kwargs
                   /\ invoked[t][1].thread = "worker"
                   /\ ret[t] = Rewrapped(invoked[t][1].result)

\* one task's blocking call is running on the worker while the other has been resumed
\* from a blocking call of its own with a rewrapped path
C1_Witness ==
    \E t, u \in Tasks :
        /\ t # u
        /\ call[t].kind = "thread"
        /\ InFlight(t)
        /\ job[t].st = "running"
        /\ call[u].kind = "thread"
        /\ Completed(u)
        /\ ret[u].t = "facade"

\* what a task's own blocking call on its own facade gives
OwnResult(t) ==
    /\ Len(invoked[t]) = 1
    /\ invoked[t][1].self = SelfOf(t).wrapped
    /\ invoked[t][1].name = call[t].name
    /\ ret[t] = Rewrapped(invoked[t][1].result)
    /\ call[t].name = "absolute" =>
           ret[t] = [t |-> "facade", wrapped |-> Raw(TRUE, SelfOf(t).wrapped.parts)]

\* C2: whatever the interleaving of two tasks that each await a blocking operation on
\* a facade of their own, and whichever call the worker completes first, each task
\* resumes with the result of its own call, and (the worker running every job and trio
\* rescheduling every task whose job is done) every suspended task is resumed.
C2_IndependentResults ==
    /\ [](\A t \in Tasks : (call[t].kind = "thread" /\ Completed(t)) => OwnResult(t))
    /\ \A t \in Tasks : (pc[t] = "suspended") ~> (pc[t] = "ready")

\* both tasks have been resumed from blocking calls on their own files, with the
\* absolute paths of their own facades
C2_Witness ==
    \A t \in Tasks :
        /\ call[t].kind = "thread"
        /\ call[t].name = "absolute"
        /\ Completed(t)
        /\ job[t].st = "delivered"
        /\ ret[t].t = "facade"

\* C3: an error the underlying operation raises reaches the caller as that same
\* error: a non-blocking or operator dispatcher raises it in the calling step, a
\* blocking dispatcher or open raises it in the task only once the task has been
\* suspended and resumed with the worker's report; and the underlying operation is
\* invoked exactly once per dispatcher call.
C3_ErrorsPropagate ==
    \A t \in Tasks :
        /\ call[t].kind \in {"forward", "magic"} =>
               /\ pc[t] = "ready"
               /\ job[t] = NoJob
               /\ Len(invoked[t]) = 1
               /\ invoked[t][1].thread = "scheduler"
               /\ (IsErr(ret[t]) \/ IsErr(invoked[t][1].result))
                      => ret[t] = invoked[t][1].result
        /\ call[t].kind \in {"thread", "open"} =>
               /\ Len(invoked[t]) = IF job[t].st \in {"done", "delivered"} THEN 1 ELSE 0
               /\ pc[t] = "suspended" <=> job[t].st \in {"queued", "running", "done"}
               /\ pc[t] = "suspended" => ret[t] = Pending
               /\ pc[t] = "ready" =>
                      /\ job[t].st = "delivered"
                      /\ invoked[t][1].thread = "worker"
                      /\ job[t].outcome = invoked[t][1].result
                      /\ (IsErr(ret[t]) \/ IsErr(invoked[t][1].result))
                             => ret[t] = invoked[t][1].result

\* one task has had the error of a non-blocking member raised in its step, the other
\* was resumed from a blocking member with the error the worker reported
C3_Witness ==
    \E t, u \in Tasks :
        /\ call[t].kind = "forward"
        /\ ret[t] = Raise("ValueError")
        /\ call[u].kind = "thread"
        /\ Completed(u)
        /\ job[u].st = "delivered"
        /\ ret[u] = Raise("FileNotFoundError")

-----------------------------------------------------------------------------
(* The classifier. *)

\* the members of a source the classifier does not skip
Classified(d) == {n \in DOMAIN d : ~startswith_(n) /\ n \notin attrs}

\* the three dispatch buckets, as the constructed type records them: cls._forward and
\* the non-blocking wrappers; the blocking wrappers and the constructors attached
\* from the blocking source; the operator wrappers
NonBlocking(n) ==
    clsDict[n] = "forward" \/ \E i \in DOMAIN forwardList : forwardList[i] = n
Blocking(n) == clsDict[n] \in {"thread", "classmethod"}
Operator(n) == clsDict[n] = "magic"

\* C8: once the classifier has run, every name a source declares that the facade does
\* not define and that is not internal is in exactly one of the three buckets, a name
\* both sources declare too.
C8_ExactlyOneBucket ==
    phase = "done" =>
        \A n \in Classified(forwardsDict) \union Classified(wrapsDict) :
            Cardinality({b \in {"n", "b", "o"} :
                            \/ b = "n" /\ NonBlocking(n)
                            \/ b = "b" /\ Blocking(n)
                            \/ b = "o" /\ Operator(n)}) = 1

\* the members of the two sources whose kind the classifier does not recognise
BadForwards == {n \in Classified(forwardsDict) : forwardsDict[n] \notin {"property", "function"}}
BadWraps == {n \in Classified(wrapsDict) : wrapsDict[n] \notin {"classmethod", "function"}}

\* C9: the construction of the facade type fails with the classification error exactly
\* when a member that is not skipped has no recognised shape for its source (neither
\* property nor function on the non-blocking one, neither classmethod nor function on
\* the blocking one), never skipping such a member; otherwise it succeeds.
C9_ClassificationError ==
    /\ phase = "TypeError" => BadForwards \union BadWraps # {}
    /\ phase = "wraps" => BadForwards = {}
    /\ phase \in {"magic", "done"} => BadForwards \union BadWraps = {}
    /\ phase \notin {"done", "TypeError"} => ENABLED NextClassify
    /\ phase = "done" =>
           /\ \A n \in Classified(forwardsDict) : NonBlocking(n) \/ Blocking(n)
           /\ \A n \in Classified(wrapsDict) : Blocking(n)

\* the non-blocking source was classified whole, and the construction failed on a
\* property the blocking source declares
C9_Witness ==
    /\ phase = "TypeError"
    /\ BadForwards = {}
    /\ Classified(forwardsDict) # {}
    /\ \E n \in BadWraps : wrapsDict[n] = "property"

\* C10: once the type is constructed, every name its body defines, an operator-list
\* name too, is still bound to the body's definition.
C10_ExplicitKept ==
    phase = "done" => \A n \in attrs : clsDict[n] = "explicit"

====
